---- MODULE Spec2Model ----
(***************************************************************************)
(* State-machine model of server.js: the prepaid-balance storefront.       *)
(*                                                                         *)
(* Money is counted in thousandths of a major currency unit ("mills"), so  *)
(* that an amount with a fraction of a minor unit (1.004) is representable *)
(* and Math.round(amount * 100) has something to round.  One minor unit    *)
(* (paise) is MillsPerMinor mills.                                         *)
(*                                                                         *)
(* JavaScript values that a handler tests for presence or converts with    *)
(* Number() are tagged records (Undefined, NaN, Num(n), Str(s)); phone     *)
(* numbers, passwords, codes and identifiers are strings, "" standing for  *)
(* a missing (falsy) field.                                                *)
(***************************************************************************)
EXTENDS Integers, Sequences, FiniteSets, Bags, TLC

VARIABLES
    users,      \* the in-memory list `users` (server.js:28)
    file,       \* the contents of users.json
    orders,     \* the gateway's orders, in the order it created them
    inflight,   \* verify-payment requests suspended at `await razorpay.orders.fetch`
    requested,  \* history: per order, the amount create-order was asked for
    ledger,     \* history: per phone number, the totals credited and spent
    applied     \* history: per order id, how often it mutated the store (2 = more than once)

vars == <<users, file, orders, inflight, requested, ledger, applied>>

-----------------------------------------------------------------------------
(* Bounds of the model *)

MaxOrders == 1          \* orders the gateway creates
MaxInflight == 1        \* verify-payment requests suspended at once
MaxConcurrent == 2      \* the same, where every request is one of two known orders'
MaxBalanceUnits == 2    \* cap on a balance, in major units
MaxHashrate == 1        \* cap on the length of a purchase list

(* Program constants *)

MinPasswordLength == 8
InitialBalance == 0
MinorPerMajor == 100

\* thousandths of a major unit in one minor unit
MillsPerMinor == 10

MaxBalance == MaxBalanceUnits * MinorPerMajor * MillsPerMinor

-----------------------------------------------------------------------------
(* JavaScript values *)

Undefined == [type |-> "undefined"]
NaN == [type |-> "NaN"]
Num(n) == [type |-> "number", val |-> n]
Str(s) == [type |-> "string", val |-> s]

\* !v
Falsy(v) ==
    \/ v = Undefined
    \/ v = NaN
    \/ v = Num(0)
    \/ v = Str("")

\* Number(v): a number is itself; undefined and a non-numeric string are NaN;
\* the empty string is 0.
ToNumber(v) ==
    IF v.type = "number" THEN v
    ELSE IF v = Str("") THEN Num(0)
    ELSE NaN

\* isNaN(n)
IsNaN(n) == n = NaN

\* Math.round(numericAmount * 100) for a positive amount given in mills:
\* the nearest whole number of minor units.
ToMinorUnits(mills) == (mills + (MillsPerMinor \div 2)) \div MillsPerMinor

\* (mutation) the amount credited as fetched, in minor units
ToMajorUnitsForgotten(minor) == minor

\* order.amount / 100, in mills
ToMajorUnits(minor) == minor * MillsPerMinor

-----------------------------------------------------------------------------
(* Request bodies *)

Phones == {"9000000001", "9000000002"}
PhoneInputs == Phones \cup {""}

\* the phone number that pays and buys
Payer == "9000000001"

PasswordInputs == {"", "short77", "secret88", "longer999"}
InvitationInputs == {"", "INV1"}

ProductA == [name |-> "A", price |-> Num(1000)]
ProductB == [name |-> "B", price |-> Num(5000)]
ProductC == [name |-> "C", price |-> Num(1000)]

\* buy-product payloads: two priced products, then one per way the payload can
\* be missing or malformed
ProductInputs ==
    { Undefined, ProductA, ProductB,
      [name |-> "free", price |-> Num(0)],
      [name |-> "neg", price |-> Num(-1000)],
      [name |-> "nan", price |-> Str("abc")],
      [name |-> "noprice"] }

\* productData.price (undefined when the object has no such property)
PriceOf(productData) ==
    IF "price" \in DOMAIN productData THEN productData.price ELSE Undefined

\* create-order request bodies: the recharge page sends a qrId, the product
\* page sends notes; then one body per way a field can be missing or malformed
RechargeBody(amount, phoneNumber) ==
    [amount |-> amount, currency |-> "INR", phoneNumber |-> phoneNumber,
     qrId |-> "qr1", notes |-> Undefined]

ProductOrderBody(amount, phoneNumber) ==
    [amount |-> amount, currency |-> "INR", phoneNumber |-> phoneNumber,
     qrId |-> "", notes |-> [purchaseType |-> "product"]]

\* 1.000 and 2.004 major units
ValidAmounts == { Num(1000), Num(2004) }
InvalidAmounts == { Undefined, Str("abc"), Num(-1000), Num(0) }

CreateOrderBodies ==
    { RechargeBody(a, Payer) : a \in ValidAmounts }
    \cup { ProductOrderBody(ProductC.price, Payer) }
    \cup { RechargeBody(a, Payer) : a \in InvalidAmounts }
    \cup { RechargeBody(Num(1000), ""),
           [RechargeBody(Num(1000), Payer) EXCEPT !.currency = ""] }

\* razorpay.orders.create(options) answers with the order, rejects the request
\* with a description, or fails otherwise
GatewayOutcomes == {"created", "rejected", "failed"}

\* the identifier the gateway gives its n-th order
OrderIdOf(n) == "order_" \o ToString(n)

\* the identifiers a client may name: those of the gateway's orders, and one
\* the gateway never issues
UnknownOrderId == "order_x"
OrderIds == { OrderIdOf(n) : n \in 1..MaxOrders } \cup { UnknownOrderId }

RAZORPAY_KEY_SECRET == "key_secret"

\* crypto.createHmac('sha256', key).update(msg).digest('hex'), as a symbolic
\* term: two digests are equal exactly when key and message are.
HmacSha256Hex(key, msg) == "hmac[" \o key \o "](" \o msg \o ")"

\* verify-payment request bodies: what the gateway hands the client after a
\* payment, with or without a product payload; then the same with one field
\* missing, or with a signature that is not the gateway's for these identifiers
VerifyBody(order_id, payment_id, signature, productData) ==
    [razorpay_order_id |-> order_id, razorpay_payment_id |-> payment_id,
     razorpay_signature |-> signature, productData |-> productData]

GatewaySignature(order_id, payment_id) ==
    HmacSha256Hex(RAZORPAY_KEY_SECRET, order_id \o "|" \o payment_id)

ForgedSignatures ==
    { "deadbeef",
      GatewaySignature("order_1", "pay_1") \o "0",
      GatewaySignature("order_1", "pay_2"),
      GatewaySignature("order_2", "pay_1"),
      HmacSha256Hex("guessed", "order_1|pay_1") }

VerifyProductInputs == { Undefined, ProductC }

PaidBodies ==
    { VerifyBody(o, "pay_1", GatewaySignature(o, "pay_1"), d) :
        o \in OrderIds, d \in VerifyProductInputs }

TamperedBodies ==
    { VerifyBody("order_1", "pay_1", s, ProductC) : s \in ForgedSignatures }

IncompleteBodies ==
    { VerifyBody("", "pay_1", GatewaySignature("", "pay_1"), Undefined),
      VerifyBody("order_1", "", GatewaySignature("order_1", ""), Undefined),
      VerifyBody("order_1", "pay_1", "", Undefined) }

VerifyBodies == PaidBodies \cup TamperedBodies \cup IncompleteBodies

-----------------------------------------------------------------------------
(* User store *)

\* users.find(u => u.phoneNumber === phoneNumber): the index of the first
\* match, 0 when there is none
FindUser(us, phoneNumber) ==
    IF \E i \in 1..Len(us) : us[i].phoneNumber = phoneNumber
    THEN CHOOSE i \in 1..Len(us) :
            /\ us[i].phoneNumber = phoneNumber
            /\ \A j \in 1..(i - 1) : us[j].phoneNumber # phoneNumber
    ELSE 0

\* JSON.stringify(users, null, 2), read back: every property of every record,
\* an undefined array element written as null
JsonValue(v) == IF v = Undefined THEN [type |-> "null"] ELSE v

JsonStringify(us) ==
    [ i \in 1..Len(us) |->
        [ id |-> us[i].id,
          phoneNumber |-> us[i].phoneNumber,
          password |-> us[i].password,
          invitationCode |-> us[i].invitationCode,
          balance |-> us[i].balance,
          hashrate |-> [ j \in 1..Len(us[i].hashrate) |-> JsonValue(us[i].hashrate[j]) ] ] ]

\* saveUsers(): users.json as written from the list `us`
saveUsers(us) == JsonStringify(us)

(* What a handler does with a request: the response it sends (res), the list
   it leaves in memory (users) and whether it called saveUsers (saved). *)

Response(status, body) == [status |-> status, body |-> body]
Message(status, message) == Response(status, [message |-> message])

Rejected(us, res) == [res |-> res, users |-> us, saved |-> FALSE]
Saved(us, res) == [res |-> res, users |-> us, saved |-> TRUE]

\* the store after a handler: the list it left, and the file if it saved
Store(result) ==
    /\ users' = result.users
    /\ file' = IF result.saved THEN saveUsers(result.users) ELSE file

-----------------------------------------------------------------------------
(* POST /register *)

\* (mutation) the phone number is not looked up
RegisterHandlerNoLookup(us, phoneNumber, password, invitationCode) ==
    IF phoneNumber = "" \/ password = "" \/ invitationCode = ""
    THEN Rejected(us, Message(400, "All fields are required."))
    ELSE IF Len(password) < MinPasswordLength
    THEN Rejected(us, Message(400, "Password must be at least 8 characters long."))
    ELSE Saved(Append(us,
                  [ id |-> Len(us) + 1,
                    phoneNumber |-> phoneNumber,
                    password |-> password,
                    invitationCode |-> invitationCode,
                    balance |-> InitialBalance,
                    hashrate |-> << >> ]),
               Message(201, "User registered successfully! Please log in."))

RegisterHandler(us, phoneNumber, password, invitationCode) ==
    IF phoneNumber = "" \/ password = "" \/ invitationCode = ""
    THEN Rejected(us, Message(400, "All fields are required."))
    ELSE IF Len(password) < MinPasswordLength
    THEN Rejected(us, Message(400, "Password must be at least 8 characters long."))
    ELSE IF FindUser(us, phoneNumber) # 0
    THEN Rejected(us, Message(409, "User with this phone number already exists."))
    ELSE Saved(Append(us,
                  [ id |-> Len(us) + 1,
                    phoneNumber |-> phoneNumber,
                    password |-> password,
                    invitationCode |-> invitationCode,
                    balance |-> InitialBalance,
                    hashrate |-> << >> ]),
               Message(201, "User registered successfully! Please log in."))

Register(phoneNumber, password, invitationCode) ==
    /\ Store(RegisterHandler(users, phoneNumber, password, invitationCode))
    /\ UNCHANGED <<orders, inflight, requested, ledger, applied>>

(* POST /login *)

\* (mutation) the password is not compared
LoginHandlerAnyPassword(us, phoneNumber, password) ==
    IF phoneNumber = "" \/ password = ""
    THEN Rejected(us, Message(400, "Phone number and password are required."))
    ELSE LET i == FindUser(us, phoneNumber) IN
         IF i = 0
         THEN Rejected(us, Message(401, "Invalid phone number or password."))
         ELSE Rejected(us, Response(200,
                 [ message |-> "Login successful!",
                   user |-> [ phoneNumber |-> us[i].phoneNumber,
                              balance |-> us[i].balance ] ]))

LoginHandler(us, phoneNumber, password) ==
    IF phoneNumber = "" \/ password = ""
    THEN Rejected(us, Message(400, "Phone number and password are required."))
    ELSE LET i == FindUser(us, phoneNumber) IN
         IF i = 0 \/ us[i].password # password
         THEN Rejected(us, Message(401, "Invalid phone number or password."))
         ELSE Rejected(us, Response(200,
                 [ message |-> "Login successful!",
                   user |-> [ phoneNumber |-> us[i].phoneNumber,
                              balance |-> us[i].balance ] ]))

Login(phoneNumber, password) ==
    /\ Store(LoginHandler(users, phoneNumber, password))
    /\ UNCHANGED <<orders, inflight, requested, ledger, applied>>

(* PUT /api/update-profile *)

\* (mutation) the new password's length is not checked
UpdateProfileHandlerAnyLength(us, phoneNumber, currentPassword, newPassword) ==
    IF phoneNumber = "" \/ currentPassword = "" \/ newPassword = ""
    THEN Rejected(us, Message(400, "All fields are required to update password."))
    ELSE LET i == FindUser(us, phoneNumber) IN
         IF i = 0
         THEN Rejected(us, Message(404, "User not found."))
         ELSE IF us[i].password # currentPassword
         THEN Rejected(us, Message(401, "Incorrect current password."))
         ELSE Saved([us EXCEPT ![i].password = newPassword],
                    Message(200, "Password updated successfully!"))

UpdateProfileHandler(us, phoneNumber, currentPassword, newPassword) ==
    IF phoneNumber = "" \/ currentPassword = "" \/ newPassword = ""
    THEN Rejected(us, Message(400, "All fields are required to update password."))
    ELSE IF Len(newPassword) < MinPasswordLength
    THEN Rejected(us, Message(400, "New password must be at least 8 characters long."))
    ELSE LET i == FindUser(us, phoneNumber) IN
         IF i = 0
         THEN Rejected(us, Message(404, "User not found."))
         ELSE IF us[i].password # currentPassword
         THEN Rejected(us, Message(401, "Incorrect current password."))
         ELSE Saved([us EXCEPT ![i].password = newPassword],
                    Message(200, "Password updated successfully!"))

UpdateProfile(phoneNumber, currentPassword, newPassword) ==
    /\ Store(UpdateProfileHandler(users, phoneNumber, currentPassword, newPassword))
    /\ UNCHANGED <<orders, inflight, requested, ledger, applied>>

-----------------------------------------------------------------------------
(* POST /api/buy-product *)

\* Express's answer to a handler that throws: 500, the request not handled
UnhandledException(name) == Response(500, [exception |-> name])

\* (mutation) the balance is not compared with the price
BuyProductHandlerNoFunds(us, phoneNumber, productData) ==
    IF productData = Undefined
    THEN Rejected(us, UnhandledException("TypeError"))
    ELSE LET numericPrice == ToNumber(PriceOf(productData)) IN
         IF \/ phoneNumber = ""
            \/ Falsy(PriceOf(productData))
            \/ IsNaN(numericPrice)
            \/ numericPrice.val <= 0
         THEN Rejected(us, Message(400, "Valid phone number and product data are required."))
         ELSE LET i == FindUser(us, phoneNumber) IN
              IF i = 0
              THEN Rejected(us, Message(404, "User not found."))
              ELSE LET after == [us EXCEPT
                                    ![i].balance = @ - numericPrice.val,
                                    ![i].hashrate = Append(@, productData)]
                   IN Saved(after, Response(200,
                         [success |-> TRUE, newBalance |-> after[i].balance]))

BuyProductHandler(us, phoneNumber, productData) ==
    IF productData = Undefined
    THEN \* line 200 reads productData.price before anything is validated
         Rejected(us, UnhandledException("TypeError"))
    ELSE LET numericPrice == ToNumber(PriceOf(productData)) IN
         IF \/ phoneNumber = ""
            \/ Falsy(PriceOf(productData))
            \/ IsNaN(numericPrice)
            \/ numericPrice.val <= 0
         THEN Rejected(us, Message(400, "Valid phone number and product data are required."))
         ELSE LET i == FindUser(us, phoneNumber) IN
              IF i = 0
              THEN Rejected(us, Message(404, "User not found."))
              ELSE IF us[i].balance < numericPrice.val
              THEN Rejected(us, Message(402, "Insufficient balance."))
              ELSE LET after == [us EXCEPT
                                    ![i].balance = @ - numericPrice.val,
                                    ![i].hashrate = Append(@, productData)]
                   IN Saved(after, Response(200,
                         [success |-> TRUE, newBalance |-> after[i].balance]))

\* the total a phone number has spent, after a request that answered `res`
Spent(led, res, phoneNumber, productData) ==
    IF res.status = 200
    THEN [led EXCEPT ![phoneNumber].spent = @ + ToNumber(PriceOf(productData)).val]
    ELSE led

BuyProduct(phoneNumber, productData) ==
    LET result == BuyProductHandler(users, phoneNumber, productData) IN
    /\ Store(result)
    /\ ledger' = Spent(ledger, result.res, phoneNumber, productData)
    /\ UNCHANGED <<orders, inflight, requested, applied>>

-----------------------------------------------------------------------------
(* POST /create-order *)

\* notes || {}, then notes.phoneNumber = phoneNumber and, if given, notes.qrId
OrderNotes(notes, phoneNumber, qrId) ==
    LET purchaseType ==
            IF notes # Undefined /\ "purchaseType" \in DOMAIN notes
            THEN notes.purchaseType ELSE ""
    IN  [phoneNumber |-> phoneNumber, purchaseType |-> purchaseType, qrId |-> qrId]

\* the response, and the order the gateway created, if it did
CreateOrderHandler(ords, body, outcome) ==
    IF body.currency = "" \/ body.phoneNumber = "" \/ body.amount = Undefined
    THEN [res |-> Response(400, [error |-> "Bad Request",
                message |-> "Amount, currency, and phone number are all required."]),
          orders |-> ords]
    ELSE LET numericAmount == ToNumber(body.amount) IN
         IF IsNaN(numericAmount) \/ numericAmount.val <= 0
         THEN [res |-> Response(400, [error |-> "Invalid Amount",
                     message |-> "A valid, positive amount is required."]),
               orders |-> ords]
         ELSE IF outcome = "created"
         THEN LET order == [ id |-> OrderIdOf(Len(ords) + 1),
                             amount |-> ToMinorUnits(numericAmount.val),
                             currency |-> body.currency,
                             notes |-> OrderNotes(body.notes, body.phoneNumber, body.qrId) ]
              IN [res |-> Response(200, order), orders |-> Append(ords, order)]
         ELSE IF outcome = "rejected"
         THEN [res |-> Response(400, [error |-> "Payment Gateway Error",
                     message |-> "gateway description"]),
               orders |-> ords]
         ELSE [res |-> Response(500, [error |-> "Server Error",
                     message |-> "An unexpected error occurred."]),
               orders |-> ords]

CreateOrder(body, outcome) ==
    LET result == CreateOrderHandler(orders, body, outcome) IN
    /\ orders' = result.orders
    /\ requested' = IF Len(result.orders) > Len(orders)
                    THEN Append(requested, ToNumber(body.amount).val)
                    ELSE requested
    /\ UNCHANGED <<users, file, inflight, ledger, applied>>

-----------------------------------------------------------------------------
(* POST /verify-payment *)

\* `${razorpay_order_id}|${razorpay_payment_id}`
SignedBody(razorpay_order_id, razorpay_payment_id) ==
    razorpay_order_id \o "|" \o razorpay_payment_id

ExpectedSignature(razorpay_order_id, razorpay_payment_id) ==
    HmacSha256Hex(RAZORPAY_KEY_SECRET, SignedBody(razorpay_order_id, razorpay_payment_id))

\* what the handler keeps across `await razorpay.orders.fetch(...)`
Suspended(body) ==
    [razorpay_order_id |-> body.razorpay_order_id, productData |-> body.productData]

\* the response to a request whose handler is suspended: none yet
Pending == Response(0, [awaiting |-> "razorpay.orders.fetch"])

\* (mutation) a signature no longer than eight characters is not compared
VerifyPaymentHandlerUnchecked(us, waiting, body) ==
    IF \/ body.razorpay_order_id = ""
       \/ body.razorpay_payment_id = ""
       \/ body.razorpay_signature = ""
    THEN [res |-> Response(400, [status |-> "failure", message |-> "Missing payment details."]),
          users |-> us, saved |-> FALSE, inflight |-> waiting]
    ELSE IF \/ HmacSha256Hex(RAZORPAY_KEY_SECRET,
                    body.razorpay_order_id \o "|" \o body.razorpay_payment_id)
                    = body.razorpay_signature
            \/ Len(body.razorpay_signature) <= 8
    THEN [res |-> Response(0, [awaiting |-> "razorpay.orders.fetch"]),
          users |-> us, saved |-> FALSE,
          inflight |-> waiting (+) SetToBag({
                [razorpay_order_id |-> body.razorpay_order_id,
                 productData |-> body.productData]})]
    ELSE [res |-> Response(400, [status |-> "failure", message |-> "Invalid signature."]),
          users |-> us, saved |-> FALSE, inflight |-> waiting]

\* the handler up to the fetch: the response, the list in memory, whether it
\* saved, and the requests suspended at a fetch, `waiting` being those
\* suspended before
VerifyPaymentHandler(us, waiting, body) ==
    IF \/ body.razorpay_order_id = ""
       \/ body.razorpay_payment_id = ""
       \/ body.razorpay_signature = ""
    THEN [res |-> Response(400, [status |-> "failure", message |-> "Missing payment details."]),
          users |-> us, saved |-> FALSE, inflight |-> waiting]
    ELSE IF ExpectedSignature(body.razorpay_order_id, body.razorpay_payment_id)
                = body.razorpay_signature
    THEN [res |-> Pending, users |-> us, saved |-> FALSE,
          inflight |-> waiting (+) SetToBag({Suspended(body)})]
    ELSE [res |-> Response(400, [status |-> "failure", message |-> "Invalid signature."]),
          users |-> us, saved |-> FALSE, inflight |-> waiting]

VerifyPayment(body) ==
    LET result == VerifyPaymentHandler(users, inflight, body) IN
    /\ Store(result)
    /\ inflight' = result.inflight
    /\ UNCHANGED <<orders, requested, ledger>>

\* razorpay.orders.fetch(id): the index of the order, 0 when the gateway has none
FetchOrder(ords, id) ==
    IF \E n \in 1..Len(ords) : ords[n].id = id
    THEN CHOOSE n \in 1..Len(ords) : ords[n].id = id
    ELSE 0

\* (mutation) the balance is set to the amount paid, not raised by it
OrderFetchedHandlerOverwrites(us, ords, req, fetched) ==
    LET n == FetchOrder(ords, req.razorpay_order_id) IN
    IF n = 0 \/ ~fetched
    THEN Rejected(us, Response(500, [status |-> "failure",
                message |-> "Could not update user balance."]))
    ELSE LET order == ords[n]
             i == FindUser(us, order.notes.phoneNumber)
         IN
         IF i = 0
         THEN Rejected(us, Response(404, [status |-> "failure",
                     message |-> "User associated with order not found."]))
         ELSE IF req.productData # Undefined /\ order.notes.purchaseType = "product"
         THEN Saved([us EXCEPT ![i].hashrate = Append(@, req.productData)],
                    Response(200, [status |-> "success",
                        message |-> "Product purchased successfully."]))
         ELSE LET after == [us EXCEPT ![i].balance = ToMajorUnits(order.amount)]
              IN Saved(after, Response(200, [status |-> "success",
                        orderId |-> req.razorpay_order_id,
                        newBalance |-> after[i].balance]))

\* the handler from the point the fetch settles; fetched = FALSE is the gateway
\* failing the call
OrderFetchedHandler(us, ords, req, fetched) ==
    LET n == FetchOrder(ords, req.razorpay_order_id) IN
    IF n = 0 \/ ~fetched
    THEN Rejected(us, Response(500, [status |-> "failure",
                message |-> "Could not update user balance."]))
    ELSE LET order == ords[n]
             i == FindUser(us, order.notes.phoneNumber)
         IN
         IF i = 0
         THEN Rejected(us, Response(404, [status |-> "failure",
                     message |-> "User associated with order not found."]))
         ELSE IF req.productData # Undefined /\ order.notes.purchaseType = "product"
         THEN Saved([us EXCEPT ![i].hashrate = Append(@, req.productData)],
                    Response(200, [status |-> "success",
                        message |-> "Product purchased successfully."]))
         ELSE LET amountPaid == ToMajorUnits(order.amount)
                  after == [us EXCEPT ![i].balance = @ + amountPaid]
              IN Saved(after, Response(200, [status |-> "success",
                        orderId |-> req.razorpay_order_id,
                        newBalance |-> after[i].balance]))

\* the total credited to a phone number, after a request that answered `res`
Credited(led, res, ords, req) ==
    IF res.status = 200 /\ "newBalance" \in DOMAIN res.body
    THEN LET order == ords[FetchOrder(ords, req.razorpay_order_id)] IN
         [led EXCEPT ![order.notes.phoneNumber].credited = @ + ToMajorUnits(order.amount)]
    ELSE led

OrderFetched(req, fetched) ==
    LET result == OrderFetchedHandler(users, orders, req, fetched) IN
    /\ BagIn(req, inflight)
    /\ inflight' = inflight (-) SetToBag({req})
    /\ Store(result)
    /\ ledger' = Credited(ledger, result.res, orders, req)
    /\ UNCHANGED <<orders, requested>>

-----------------------------------------------------------------------------
(* The system *)

Init ==
    /\ users = << >>
    /\ file = << >>
    /\ orders = << >>
    /\ inflight = EmptyBag
    /\ requested = << >>
    /\ ledger = [p \in Phones |-> [credited |-> 0, spent |-> 0]]
    /\ applied = [o \in OrderIds |-> 0]

\* the bounds, on the state a step leads to
WithinBounds ==
    /\ \A i \in 1..Len(users') :
          /\ users'[i].balance <= MaxBalance
          /\ Len(users'[i].hashrate) <= MaxHashrate
    /\ Len(orders') <= MaxOrders
    /\ BagCardinality(inflight') <= MaxInflight

\* the credentials the payment flow is explored with
SpecPasswords == {"short77", "secret88"}

\* a request arrives and its handler runs, to its end or to its await
Requests ==
    \/ \E p \in PhoneInputs, w \in SpecPasswords, c \in InvitationInputs :
          Register(p, w, c) /\ WithinBounds /\ UNCHANGED applied
    \/ \E p \in PhoneInputs, w \in SpecPasswords :
          Login(p, w) /\ WithinBounds /\ UNCHANGED applied
    \/ \E p \in Phones, n \in PasswordInputs :
          UpdateProfile(p, "secret88", n) /\ WithinBounds /\ UNCHANGED applied
    \/ \E p \in {Payer, ""}, d \in ProductInputs :
          BuyProduct(p, d) /\ WithinBounds /\ UNCHANGED applied
    \/ \E b \in CreateOrderBodies, g \in GatewayOutcomes :
          CreateOrder(b, g) /\ WithinBounds /\ UNCHANGED applied
    \/ \E b \in VerifyBodies :
          VerifyPayment(b) /\ WithinBounds /\ UNCHANGED applied

\* the gateway answers a fetch and the suspended handler runs to its end
Fetches ==
    \E req \in BagToSet(inflight), f \in BOOLEAN :
        OrderFetched(req, f) /\ WithinBounds /\ UNCHANGED applied

Next == Requests \/ Fetches

Spec == Init /\ [][Next]_vars

(* The same system, with the history of applications recorded: an order is
   counted each time a fetch of it ends in a mutation of the store. *)

Saturate(n) == IF n >= 2 THEN 2 ELSE n

RecordApplied(req) ==
    applied' = IF users' # users
               THEN [applied EXCEPT ![req.razorpay_order_id] = Saturate(@ + 1)]
               ELSE applied

FetchesRecorded ==
    \E req \in BagToSet(inflight), f \in BOOLEAN :
        OrderFetched(req, f) /\ WithinBounds /\ RecordApplied(req)

NextReplay == Requests \/ FetchesRecorded

SpecReplay == Init /\ [][NextReplay]_vars

(* Accounts alone: registration, login and password change, over three phone
   numbers and every password input. *)

AccountPhoneInputs == PhoneInputs \cup {"9000000003"}
AccountPasswordInputs == PasswordInputs \cup {"rotated4567"}

NextAccounts ==
    \/ \E p \in AccountPhoneInputs, w \in AccountPasswordInputs, c \in InvitationInputs :
          Register(p, w, c)
    \/ \E p \in AccountPhoneInputs, w \in AccountPasswordInputs : Login(p, w)
    \/ \E p \in AccountPhoneInputs, w \in AccountPasswordInputs,
          n \in AccountPasswordInputs : UpdateProfile(p, w, n)

SpecAccounts == Init /\ [][NextAccounts]_vars

(* Concurrent requests on one user: the payer is registered and the gateway
   holds two recharge orders of theirs; verify-payment requests for them, and
   for an order the gateway does not know, are suspended at the fetch while
   buy-product requests run. *)

RaceOrders ==
    CreateOrderHandler(
        CreateOrderHandler(<< >>, RechargeBody(Num(1000), Payer), "created").orders,
        RechargeBody(Num(2004), Payer), "created").orders

RaceBodies ==
    { VerifyBody(OrderIdOf(n), "pay_1", GatewaySignature(OrderIdOf(n), "pay_1"), d) :
        n \in 1..Len(RaceOrders), d \in VerifyProductInputs }
    \cup { VerifyBody(UnknownOrderId, "pay_1",
                      GatewaySignature(UnknownOrderId, "pay_1"), Undefined) }

RaceInit ==
    /\ users = RegisterHandler(<< >>, Payer, "secret88", "INV1").users
    /\ file = saveUsers(users)
    /\ orders = RaceOrders
    /\ inflight = EmptyBag
    /\ requested = <<1000, 2004>>
    /\ ledger = [p \in Phones |-> [credited |-> 0, spent |-> 0]]
    /\ applied = [o \in OrderIds |-> 0]

RaceBounds ==
    /\ \A i \in 1..Len(users') :
          /\ users'[i].balance <= MaxBalance
          /\ Len(users'[i].hashrate) <= MaxHashrate
    /\ BagCardinality(inflight') <= MaxConcurrent

NextRace ==
    \/ \E b \in RaceBodies :
          VerifyPayment(b) /\ RaceBounds /\ UNCHANGED applied
    \/ \E req \in BagToSet(inflight), f \in BOOLEAN :
          OrderFetched(req, f) /\ RaceBounds /\ UNCHANGED applied
    \/ \E d \in ProductInputs :
          BuyProduct(Payer, d) /\ RaceBounds /\ UNCHANGED applied

SpecRace == RaceInit /\ [][NextRace]_vars

-----------------------------------------------------------------------------
(* Properties *)

\* the requests that can be suspended at the fetch of the gateway's n-th order
SuspendedFor(n) ==
    { [razorpay_order_id |-> orders[n].id, productData |-> d] : d \in VerifyProductInputs }

\* the index of the user the gateway's n-th order names, 0 when there is none
OrderUser(n) == FindUser(users, orders[n].notes.phoneNumber)

IsProductOrder(n) == orders[n].notes.purchaseType = "product"

\* C1: over any sequence of verify-payment calls a gateway order is applied
\* to the user store at most once: a repeated verify-payment with the same
\* valid order id, payment id and signature neither credits the balance nor
\* appends the product payload a second time.
C1_AppliedOnce == \A o \in OrderIds : applied[o] <= 1

\* a verify-payment body whose signature is not the hex HMAC-SHA256, keyed by
\* the server secret, of order id + "|" + payment id
Mismatch(b) ==
    b.razorpay_signature # ExpectedSignature(b.razorpay_order_id, b.razorpay_payment_id)

\* C2, as claimed: every verify-payment whose signature differs from the HMAC
\* is answered 400 'Invalid signature.'; the order is not fetched and the
\* store is not changed.
C2_InvalidSignatureAlways ==
    \A b \in { v \in VerifyBodies : Mismatch(v) } :
        VerifyPaymentHandler(users, inflight, b)
            = [res |-> Response(400, [status |-> "failure",
                                      message |-> "Invalid signature."]),
               users |-> users, saved |-> FALSE, inflight |-> inflight]

\* a body with an empty order id, payment id or signature
Incomplete(b) ==
    \/ b.razorpay_order_id = ""
    \/ b.razorpay_payment_id = ""
    \/ b.razorpay_signature = ""

\* C2, amended: every verify-payment whose signature differs from the HMAC is
\* answered 400, 'Invalid signature.' when order id, payment id and signature
\* are all given and 'Missing payment details.' when one of them is empty;
\* the order is not fetched, no user's balance or purchase list changes and
\* nothing is saved.
C2_SignatureGate ==
    \A b \in { v \in VerifyBodies : Mismatch(v) } :
        VerifyPaymentHandler(users, inflight, b)
            = [res |-> Response(400, [status |-> "failure",
                          message |-> IF Incomplete(b) THEN "Missing payment details."
                                      ELSE "Invalid signature."]),
               users |-> users, saved |-> FALSE, inflight |-> inflight]

\* a recharge has been verified and credited, and a tampered confirmation of
\* the same order is turned away
C2_Witness ==
    /\ \E i \in 1..Len(users) : users[i].balance > 0
    /\ \E b \in TamperedBodies :
          /\ FetchOrder(orders, b.razorpay_order_id) # 0
          /\ Mismatch(b)
          /\ VerifyPaymentHandler(users, inflight, b).res.status = 400
          /\ VerifyPaymentHandler(users, inflight, b).users = users

\* C3: the branch of a verified payment is decided by the order's metadata
\* alone: for an order marked purchaseType = 'product', whatever the request
\* body (with or without productData), the payload is appended to the user's
\* purchase list and the balance is unchanged.
C3_ProductOrderAppends ==
    \A n \in 1..Len(orders) : \A req \in SuspendedFor(n) :
        LET i == OrderUser(n)
            after == OrderFetchedHandler(users, orders, req, TRUE).users
        IN (IsProductOrder(n) /\ i # 0)
           => /\ after[i].balance = users[i].balance
              /\ after[i].hashrate = Append(users[i].hashrate, req.productData)

NearestMinorUnit(c, a) ==
    /\ c % MillsPerMinor = 0
    /\ 2 * (c - a) <= MillsPerMinor
    /\ 2 * (a - c) < MillsPerMinor

C5_NeverNegative ==
    /\ \A i \in 1..Len(users) : users[i].balance >= 0
    /\ \A i \in 1..Len(file) : file[i].balance >= 0
    /\ \A p \in Phones : \A d \in ProductInputs \ {Undefined} :
          LET i == FindUser(users, p)
              price == ToNumber(PriceOf(d))
          IN (i # 0 /\ ~IsNaN(price) /\ price.val > users[i].balance)
             => BuyProductHandler(users, p, d)
                    = Rejected(users, Message(402, "Insufficient balance."))

\* the payer has bought a product, has money left, and cannot afford another
C5_Witness ==
    /\ ledger[Payer].spent > 0
    /\ FindUser(users, Payer) # 0
    /\ users[FindUser(users, Payer)].balance > 0
    /\ users[FindUser(users, Payer)].balance < ProductB.price.val
    /\ users[FindUser(users, Payer)].hashrate # << >>

NoSharedPhone(us) ==
    \A i, j \in 1..Len(us) : i # j => us[i].phoneNumber # us[j].phoneNumber

\* C6, as claimed: no two records share a phone number, and every register
\* with a phone number already in the store is answered 409 and leaves the
\* store unchanged.
C6_ConflictAlways ==
    /\ NoSharedPhone(users)
    /\ \A p \in Phones, w \in PasswordInputs, c \in InvitationInputs :
          FindUser(users, p) # 0
          => /\ RegisterHandler(users, p, w, c).res.status = 409
             /\ RegisterHandler(users, p, w, c).users = users

\* what validation answers before the phone number is looked up
FieldsValid(w, c) == w # "" /\ c # "" /\ Len(w) >= MinPasswordLength

C6_RegisterTwice ==
    /\ NoSharedPhone(users)
    /\ NoSharedPhone(file)
    /\ \A p \in Phones, w \in PasswordInputs, c \in InvitationInputs :
          FindUser(users, p) # 0
          => /\ RegisterHandler(users, p, w, c).res.status
                    = IF FieldsValid(w, c) THEN 409 ELSE 400
             /\ RegisterHandler(users, p, w, c).users = users
             /\ ~RegisterHandler(users, p, w, c).saved

C6_RecordsKept ==
    /\ Len(users') >= Len(users)
    /\ \A i \in 1..Len(users) :
          /\ users'[i].phoneNumber = users[i].phoneNumber
          /\ users'[i].id = users[i].id
    /\ Len(users') > Len(users)
          => \E p \in PhoneInputs, w \in PasswordInputs, c \in InvitationInputs :
                Register(p, w, c)

\* C6, amended: in every reachable state no two records share a phone number:
\* a register with a phone number already in the store is answered 409 when
\* its other fields are valid and 400 when a field is missing or the password
\* is under 8 characters, and either way leaves the store unchanged; no other
\* operation adds a record or changes a phone number.
C6_PhoneUnique == []C6_RegisterTwice /\ [][C6_RecordsKept]_vars

\* two users are registered, one of them with money
C6_Witness ==
    /\ Len(users) = 2
    /\ \E i \in 1..Len(users) : users[i].balance > 0

\* C7: login answers 200 exactly when a record with the phone number exists
\* and its stored password, as set by register or the latest update-profile,
\* equals the submitted one; the 200 response carries the user's phoneNumber
\* and balance and no password; login changes nothing.
C7_LoginIff ==
    \A p \in AccountPhoneInputs, w \in AccountPasswordInputs :
        LET result == LoginHandler(users, p, w) IN
        /\ result.res.status = 200
              <=> \E i \in 1..Len(users) :
                      users[i].phoneNumber = p /\ users[i].password = w
        /\ result.res.status = 200
              => /\ DOMAIN result.res.body = {"message", "user"}
                 /\ DOMAIN result.res.body.user = {"phoneNumber", "balance"}
                 /\ result.res.body.user.phoneNumber = p
                 /\ result.res.body.user.balance = users[FindUser(users, p)].balance
        /\ result.users = users
        /\ ~result.saved

\* two users hold different passwords: each logs in with their own and is
\* turned away with the other's
C7_Witness ==
    \E i, j \in 1..Len(users) :
        /\ users[i].password # users[j].password
        /\ LoginHandler(users, users[i].phoneNumber, users[i].password).res.status = 200
        /\ LoginHandler(users, users[i].phoneNumber, users[j].password).res.status = 401

Malformed(phoneNumber, productData) ==
    \/ phoneNumber = ""
    \/ productData = Undefined
    \/ Falsy(PriceOf(productData))
    \/ IsNaN(ToNumber(PriceOf(productData)))
    \/ ToNumber(PriceOf(productData)).val <= 0

\* C9: buy-product answers every request with a missing or malformed field
\* (no phoneNumber, no productData, a missing, non-numeric or non-positive
\* price) with the 400 validation error and leaves the store unchanged; none
\* ends in an exception or a 500.
C9_MalformedIs400 ==
    \A p \in PhoneInputs, d \in ProductInputs :
        Malformed(p, d)
        => BuyProductHandler(users, p, d)
              = Rejected(users,
                    Message(400, "Valid phone number and product data are required."))

====
